---- MODULE Spec2Model ----
(***************************************************************************)
(* GPT-2 / ViT FastAPI service and its performance-test harness            *)
(* (model_deployment.ipynb).  The notebook is modelled as the sequential   *)
(* execution of its cells: model loading, endpoint definition, the uvicorn *)
(* server thread, the in-process TestClient and run_performance_tests.     *)
(*                                                                         *)
(* Two event loops can run a handler of the same app: the TestClient's     *)
(* (slot "tc", driven by the harness) and the uvicorn thread's (slot       *)
(* "srv", driven by outside HTTP clients).  The handlers are `async def`   *)
(* without an await, so each loop runs one handler at a time, and the two  *)
(* loops interleave.                                                       *)
(*                                                                         *)
(* time.time() is the system wall clock: successive reads may be equal     *)
(* (finite resolution) and may decrease (the clock is set back).  Time is  *)
(* counted in clock ticks.                                                 *)
(***************************************************************************)
EXTENDS Integers, Sequences, FiniteSets, TLC

VARIABLES
    cell,          \* position of the notebook's top-level execution
    gpt_model,     \* "unloaded" | "loaded"          (gpt_model + gpt_tokenizer)
    vit_model,     \* "unloaded" | "loaded"          (vit_model + vit_processor)
    device,        \* "none" | "cpu" | "cuda"
    load_count,    \* history: from_pretrained calls per model
    server,        \* "down" | "up"                  (uvicorn daemon thread)
    now,           \* the wall clock, in ticks
    setbacks,      \* history: how often the clock was set back
    req,           \* one request slot per event loop: "tc", "srv"
    last_start,    \* history: the latest value a handler read at its entry
    had_failure,   \* history: some request was answered with a non-200 status
    hpc,           \* position inside run_performance_tests
    i,             \* loop variable of the harness
    start_time,    \* the harness's start_time local
    gpt_results,   \* the harness's gpt_results list
    vit_results,   \* the harness's vit_results list
    sent,          \* history: harness calls sent per endpoint
    files          \* files written to disk

vars == <<cell, gpt_model, vit_model, device, load_count, server, now, setbacks,
          req, last_start, had_failure, hpc, i, start_time, gpt_results,
          vit_results, sent, files>>

svars == <<cell, gpt_model, vit_model, device, load_count, server>>
hvars == <<hpc, i, start_time, gpt_results, vit_results, sent, files>>

(***************************************************************************)
(* Bounds of the model.                                                    *)
(***************************************************************************)
\* calls per endpoint made by the harness (stands for range(100))
NumCalls == 2
\* the clock stops advancing at this value
MaxClock == 1
\* how often the clock may be set back in one run
MaxSetBacks == 1

Slots == {"tc", "srv"}

(***************************************************************************)
(* base64 (the standard alphabet, as base64.b64encode / b64decode use it)  *)
(***************************************************************************)
B64Alphabet ==
    << "A","B","C","D","E","F","G","H","I","J","K","L","M","N","O","P",
       "Q","R","S","T","U","V","W","X","Y","Z","a","b","c","d","e","f",
       "g","h","i","j","k","l","m","n","o","p","q","r","s","t","u","v",
       "w","x","y","z","0","1","2","3","4","5","6","7","8","9","+","/" >>

IsB64Char(c) == \E k \in 1..64 : B64Alphabet[k] = c
B64Value(c) == (CHOOSE k \in 1..64 : B64Alphabet[k] = c) - 1
B64Char(v) == B64Alphabet[v + 1]

\* base64.b64encode(bytes).decode(): 3 bytes -> 4 characters, "=" padding
RECURSIVE b64encode(_)
b64encode(bytes) ==
    IF Len(bytes) = 0 THEN << >>
    ELSE IF Len(bytes) = 1 THEN
        << B64Char(bytes[1] \div 4), B64Char((bytes[1] % 4) * 16), "=", "=" >>
    ELSE IF Len(bytes) = 2 THEN
        << B64Char(bytes[1] \div 4),
           B64Char((bytes[1] % 4) * 16 + bytes[2] \div 16),
           B64Char((bytes[2] % 16) * 4), "=" >>
    ELSE
        << B64Char(bytes[1] \div 4),
           B64Char((bytes[1] % 4) * 16 + bytes[2] \div 16),
           B64Char((bytes[2] % 16) * 4 + bytes[3] \div 64),
           B64Char(bytes[3] % 64) >>
        \o b64encode(SubSeq(bytes, 4, Len(bytes)))

(***************************************************************************)
(* base64.b64decode(s) with validate=False (binascii.a2b_base64, not       *)
(* strict): characters outside the alphabet are skipped, a pad sequence    *)
(* that completes a quad ends the parse, and leftover data characters      *)
(* raise binascii.Error.  The scan carries quad_pos, pads, the pending     *)
(* bits (leftchar) and the bytes produced so far.                          *)
(***************************************************************************)
ErrPadding == "Incorrect padding"
ErrDataChars ==
    "Invalid base64-encoded string: number of data characters cannot be 1 more than a multiple of 4"

RECURSIVE a2b_base64(_, _, _, _, _, _)
a2b_base64(s, k, quad_pos, pads, leftchar, out) ==
    IF k > Len(s) THEN
        IF quad_pos = 0 THEN [ok |-> TRUE, bytes |-> out, err |-> ""]
        ELSE IF quad_pos = 1 THEN [ok |-> FALSE, bytes |-> << >>, err |-> ErrDataChars]
        ELSE [ok |-> FALSE, bytes |-> << >>, err |-> ErrPadding]
    ELSE IF s[k] = "=" THEN
        IF quad_pos >= 2 /\ quad_pos + pads + 1 >= 4
        THEN [ok |-> TRUE, bytes |-> out, err |-> ""]
        ELSE a2b_base64(s, k + 1, quad_pos,
                        IF quad_pos >= 2 THEN pads + 1 ELSE pads, leftchar, out)
    ELSE IF ~IsB64Char(s[k]) THEN
        a2b_base64(s, k + 1, quad_pos, pads, leftchar, out)
    ELSE
        LET v == B64Value(s[k]) IN
        IF quad_pos = 0 THEN a2b_base64(s, k + 1, 1, 0, v, out)
        ELSE IF quad_pos = 1 THEN
            a2b_base64(s, k + 1, 2, 0, v % 16,
                       Append(out, leftchar * 4 + v \div 16))
        ELSE IF quad_pos = 2 THEN
            a2b_base64(s, k + 1, 3, 0, v % 4,
                       Append(out, leftchar * 16 + v \div 4))
        ELSE
            a2b_base64(s, k + 1, 0, 0, 0, Append(out, leftchar * 64 + v))

b64decode(s) == a2b_base64(s, 1, 0, 0, 0, << >>)

(***************************************************************************)
(* Request bodies.  A JSON value is tagged with its type; a missing key is *)
(* [t |-> "absent"].                                                       *)
(***************************************************************************)
JStr(v) == [t |-> "str", str |-> v]
JInt(v) == [t |-> "int", int |-> v]
JAbsent == [t |-> "absent"]
NoBody == [t |-> "absent"]

\* the bytes of an image file PIL can identify, cut to the first three bytes
\* of the PNG signature
PngBytes == << 137, 80, 78 >>

\* create_test_image(): a PNG, base64-encoded
create_test_image == b64encode(PngBytes)

test_text == "Once upon a time"

HarnessTextBody == [text |-> JStr(test_text), max_length |-> JInt(50)]
HarnessImageBody == [image |-> JStr(create_test_image)]

TextBodies ==
    { HarnessTextBody,
      [text |-> JStr(test_text), max_length |-> JAbsent],
      [text |-> JAbsent, max_length |-> JInt(50)],
      [text |-> JStr(test_text), max_length |-> JStr("fifty")] }

\* image strings an outside client may send
ImageStrings ==
    { create_test_image,                       \* "iVBO"
      << "i", "V", "!", "B", "O" >>,           \* a stray character inside it
      << "i", "V", "B" >>,                     \* a quad cut short
      << "i", "V", "B", "O", "i" >>,           \* one data character too many
      << "Q", "U", "J", "D" >>,                \* well-formed, not an image
      << "!", "!" >> }                         \* no data characters at all

ImageBodies ==
    { [image |-> JStr(s)] : s \in ImageStrings } \cup { [image |-> JAbsent] }

Requests ==
    { [endpoint |-> "/health", body |-> NoBody] }
    \cup { [endpoint |-> "/generate_text", body |-> b] : b \in TextBodies }
    \cup { [endpoint |-> "/process_image", body |-> b] : b \in ImageBodies }

(***************************************************************************)
(* Request models (pydantic, validated by FastAPI before the handler runs) *)
(***************************************************************************)
\* class TextRequest: text: str; max_length: Optional[int] = 100
TextRequestValid(body) ==
    /\ body.text.t = "str"
    /\ body.max_length.t \in {"int", "absent"}

TextRequest(body) ==
    [text |-> body.text.str,
     max_length |-> IF body.max_length.t = "absent" THEN 100
                    ELSE body.max_length.int]

\* class ImageRequest: image: str
ImageRequestValid(body) == body.image.t = "str"

ImageRequest(body) == [image |-> body.image.str]

BodyValid(endpoint, body) ==
    IF endpoint = "/generate_text" THEN TextRequestValid(body)
    ELSE ImageRequestValid(body)

(***************************************************************************)
(* Responses                                                               *)
(***************************************************************************)
Exc(type, msg) == [type |-> type, msg |-> msg]
NoExc == [type |-> "", msg |-> ""]

\* str(e) of an exception built with one message argument
Str(e) == e.msg

\* variant: a fixed client-error answer in place of the 500 below
HTTPException400(e) == [status |-> 400, body |-> [detail |-> JStr("Internal error")]]
\* raise HTTPException(status_code=500, detail=str(e))
HTTPException500(e) == [status |-> 500, body |-> [detail |-> JStr(Str(e))]]

\* FastAPI's answer to a body that fails the request model
ValidationError422 == [status |-> 422, body |-> [detail |-> [t |-> "list"]]]

\* variant: a health check that looks at the service's state
health_check_probing ==
    IF had_failure \/ \E s \in Slots : req[s].stage = "running"
    THEN [status |-> 503, body |-> [status |-> "unhealthy"]]
    ELSE [status |-> 200, body |-> [status |-> "healthy"]]
\* async def health_check(): return {"status": "healthy"}
health_check == [status |-> 200, body |-> [status |-> "healthy"]]

NoResponse == [status |-> 0, body |-> NoBody]

IdleSlot ==
    [stage |-> "idle", endpoint |-> "", body |-> NoBody, start_time |-> 0,
     end_time |-> 0, exc |-> NoExc, response |-> NoResponse]

(***************************************************************************)
(* The handlers' try blocks.  `fault` is an inference error raised by the  *)
(* model library (out of memory, a device error).  Each returns           *)
(* [exc, payload]: the exception raised, or the value computed             *)
(* (generated_text, cls_token.shape).                                      *)
(***************************************************************************)
Raised(e) == [exc |-> e, payload |-> NoBody]
Returned(p) == [exc |-> NoExc, payload |-> p]

\* generate_text, lines 96-103
generate_text_try(body, fault) ==
    LET request == TextRequest(body) IN
    IF gpt_model # "loaded"
    THEN Raised(Exc("NameError", "name 'gpt_tokenizer' is not defined"))
    ELSE IF fault
    THEN Raised(Exc("RuntimeError", "CUDA out of memory"))
    ELSE Returned(<< "generated", request.text, request.max_length >>)

\* process_image, lines 117-125
process_image_try(body, fault) ==
    LET request == ImageRequest(body)
        image_bytes == b64decode(request.image)
    IN
    IF ~image_bytes.ok
    THEN Raised(Exc("binascii.Error", image_bytes.err))
    ELSE IF image_bytes.bytes # PngBytes
    THEN Raised(Exc("UnidentifiedImageError", "cannot identify image file"))
    ELSE IF vit_model # "loaded"
    THEN Raised(Exc("NameError", "name 'vit_processor' is not defined"))
    ELSE IF fault
    THEN Raised(Exc("RuntimeError", "CUDA out of memory"))
    ELSE Returned(<< 1, 768 >>)

handler_try(endpoint, body, fault) ==
    IF endpoint = "/generate_text" THEN generate_text_try(body, fault)
    ELSE process_image_try(body, fault)

\* variant: start_time kept in one module-level variable
HandlerStartTimeShared(s) == last_start
\* the handler's start_time local (lines 94, 114)
HandlerStartTime(s) == req[s].start_time

\* process_time = time.time() - start_time (lines 104, 127)
process_time(s) == now - HandlerStartTime(s)

\* the response of a handler that ran its try block with outcome r
handler_response(s, r) ==
    IF r.exc # NoExc THEN HTTPException500(r.exc)
    ELSE IF req[s].endpoint = "/generate_text"
    THEN [status |-> 200,
          body |-> [generated_text |-> r.payload,
                    processing_time |-> process_time(s)]]
    ELSE [status |-> 200,
          body |-> [embedding_shape |-> r.payload,
                    processing_time |-> process_time(s)]]

(***************************************************************************)
(* calculate_stats.  Times are whole ticks, so a mean is the exact         *)
(* fraction [num, den]; np.std is the root of the mean squared deviation,  *)
(* kept as its square, the variance, over the common denominator n^3.      *)
(***************************************************************************)
RECURSIVE Sum(_)
Sum(xs) == IF Len(xs) = 0 THEN 0 ELSE xs[1] + Sum(Tail(xs))

RECURSIVE np_min(_)
np_min(xs) ==
    IF Len(xs) = 1 THEN xs[1]
    ELSE LET m == np_min(Tail(xs)) IN IF xs[1] < m THEN xs[1] ELSE m

RECURSIVE np_max(_)
np_max(xs) ==
    IF Len(xs) = 1 THEN xs[1]
    ELSE LET m == np_max(Tail(xs)) IN IF xs[1] > m THEN xs[1] ELSE m

np_mean(xs) == [num |-> Sum(xs), den |-> Len(xs)]

\* mean(abs(x - x.mean())**2), each deviation scaled by n
np_var(xs) ==
    LET n == Len(xs)
        dev2 == [k \in 1..n |-> (n * xs[k] - Sum(xs)) * (n * xs[k] - Sum(xs))]
    IN [num |-> Sum(dev2), den |-> n * n * n]

\* variant: min and max exchanged, the mean taken of the wrong list
calculate_stats_mixed(results) ==
    LET total_times == [k \in 1..Len(results) |-> results[k].total_time]
        processing_times ==
            [k \in 1..Len(results) |-> results[k].server_processing_time]
    IN [average_total_time |-> np_mean(processing_times),
        average_processing_time |-> np_mean(processing_times),
        min_time |-> np_max(total_times),
        max_time |-> np_min(total_times),
        std_dev_squared |-> np_var(total_times)]
\* calculate_stats(results, model_name), lines 232-251
calculate_stats(results) ==
    LET total_times == [k \in 1..Len(results) |-> results[k].total_time]
        processing_times ==
            [k \in 1..Len(results) |-> results[k].server_processing_time]
    IN [average_total_time |-> np_mean(total_times),
        average_processing_time |-> np_mean(processing_times),
        min_time |-> np_min(total_times),
        max_time |-> np_max(total_times),
        std_dev_squared |-> np_var(total_times)]

(***************************************************************************)
(* Initial state: a fresh kernel about to run the model-loading cell.      *)
(***************************************************************************)
Init ==
    /\ cell = "load_gpt"
    /\ gpt_model = "unloaded"
    /\ vit_model = "unloaded"
    /\ device = "none"
    /\ load_count = [gpt |-> 0, vit |-> 0]
    /\ server = "down"
    /\ now = 0
    /\ setbacks = 0
    /\ req = [s \in Slots |-> IdleSlot]
    /\ last_start = 0
    /\ had_failure = FALSE
    /\ hpc = "not_started"
    /\ i = 0
    /\ start_time = 0
    /\ gpt_results = << >>
    /\ vit_results = << >>
    /\ sent = [gpt |-> 0, vit |-> 0]
    /\ files = << >>

(***************************************************************************)
(* The wall clock                                                          *)
(***************************************************************************)
Tick ==
    /\ now < MaxClock
    /\ now' = now + 1
    /\ UNCHANGED <<svars, setbacks, req, last_start, had_failure, hvars>>

ClockSetBack ==
    /\ now > 0
    /\ setbacks < MaxSetBacks
    /\ now' = now - 1
    /\ setbacks' = setbacks + 1
    /\ UNCHANGED <<svars, req, last_start, had_failure, hvars>>

(***************************************************************************)
(* The model-loading cell (try: ... except Exception: print; raise)        *)
(***************************************************************************)
\* variant: the except clause prints and does not re-raise
LoadFailedSwallowed == "start_server"
\* where the cell goes when a load raises: print, then raise
LoadFailed == "aborted"

\* GPT2LMHeadModel.from_pretrained, GPT2Tokenizer.from_pretrained
LoadGpt ==
    /\ cell = "load_gpt"
    /\ load_count' = [load_count EXCEPT !.gpt = @ + 1]
    /\ \E ok \in BOOLEAN :
         IF ok THEN gpt_model' = "loaded" /\ cell' = "load_vit"
         ELSE gpt_model' = gpt_model /\ cell' = LoadFailed
    /\ UNCHANGED <<vit_model, device, server, now, setbacks, req, last_start,
                   had_failure, hvars>>

\* ViTModel.from_pretrained, ViTImageProcessor.from_pretrained
LoadVit ==
    /\ cell = "load_vit"
    /\ load_count' = [load_count EXCEPT !.vit = @ + 1]
    /\ \E ok \in BOOLEAN :
         IF ok THEN vit_model' = "loaded" /\ cell' = "to_device"
         ELSE vit_model' = vit_model /\ cell' = LoadFailed
    /\ UNCHANGED <<gpt_model, device, server, now, setbacks, req, last_start,
                   had_failure, hvars>>

\* device = cuda if available else cpu; gpt_model.to(device); vit_model.to(device)
ToDevice ==
    /\ cell = "to_device"
    /\ \E d \in {"cpu", "cuda"}, ok \in BOOLEAN :
         IF ok THEN device' = d /\ cell' = "start_server"
         ELSE device' = d /\ cell' = LoadFailed
    /\ UNCHANGED <<gpt_model, vit_model, load_count, server, now, setbacks, req,
                   last_start, had_failure, hvars>>

\* server_thread.start(): uvicorn.run(app) in a daemon thread
StartServer ==
    /\ cell = "start_server"
    /\ server' = "up"
    /\ cell' = "create_client"
    /\ UNCHANGED <<gpt_model, vit_model, device, load_count, now, setbacks, req,
                   last_start, had_failure, hvars>>

\* client = TestClient(app), then the last cell calls run_performance_tests()
RunTests ==
    /\ cell = "create_client"
    /\ cell' = "run_tests"
    /\ hpc' = "test_health"
    /\ UNCHANGED <<gpt_model, vit_model, device, load_count, server, now,
                   setbacks, req, last_start, had_failure, i, start_time,
                   gpt_results, vit_results, sent, files>>

(***************************************************************************)
(* Serving one request in slot s (the app, whichever loop runs it)         *)
(***************************************************************************)
Received(r) ==
    [IdleSlot EXCEPT !.stage = "received", !.endpoint = r.endpoint,
                     !.body = r.body]

\* GET /health
HealthCheck(s) ==
    /\ req[s].stage = "received"
    /\ req[s].endpoint = "/health"
    /\ req' = [req EXCEPT ![s].stage = "done", ![s].response = health_check]
    /\ UNCHANGED <<svars, now, setbacks, last_start, had_failure, hvars>>

\* a POST whose body does not fit the request model never reaches the handler
RejectInvalid(s) ==
    /\ req[s].stage = "received"
    /\ req[s].endpoint # "/health"
    /\ ~BodyValid(req[s].endpoint, req[s].body)
    /\ req' = [req EXCEPT ![s].stage = "done",
                          ![s].response = ValidationError422]
    /\ UNCHANGED <<svars, now, setbacks, last_start, had_failure, hvars>>

\* the handler is entered: start_time = time.time()
HandlerStart(s) ==
    /\ req[s].stage = "received"
    /\ req[s].endpoint # "/health"
    /\ BodyValid(req[s].endpoint, req[s].body)
    /\ req' = [req EXCEPT ![s].stage = "running", ![s].start_time = now]
    /\ last_start' = now
    /\ UNCHANGED <<svars, now, setbacks, had_failure, hvars>>

\* the try block runs; the handler returns its result or raises HTTPException
HandlerFinish(s) ==
    /\ req[s].stage = "running"
    /\ \E fault \in BOOLEAN :
         LET r == handler_try(req[s].endpoint, req[s].body, fault) IN
         req' = [req EXCEPT ![s].stage = "done",
                            ![s].end_time = now,
                            ![s].exc = r.exc,
                            ![s].response = handler_response(s, r)]
    /\ UNCHANGED <<svars, now, setbacks, last_start, had_failure, hvars>>

(***************************************************************************)
(* Outside clients of the uvicorn server (127.0.0.1:8000)                  *)
(***************************************************************************)
ClientSend ==
    /\ server = "up"
    /\ req["srv"].stage = "idle"
    /\ \E r \in Requests : req' = [req EXCEPT !["srv"] = Received(r)]
    /\ UNCHANGED <<svars, now, setbacks, last_start, had_failure, hvars>>

ClientReceive ==
    /\ req["srv"].stage = "done"
    /\ had_failure' = (had_failure \/ req["srv"].response.status # 200)
    /\ req' = [req EXCEPT !["srv"] = IdleSlot]
    /\ UNCHANGED <<svars, now, setbacks, last_start, hvars>>

(***************************************************************************)
(* run_performance_tests                                                   *)
(***************************************************************************)
\* test_health(): response = client.get("/health")
TestHealthSend ==
    /\ hpc = "test_health"
    /\ req["tc"].stage = "idle"
    /\ req' = [req EXCEPT !["tc"] =
                 Received([endpoint |-> "/health", body |-> NoBody])]
    /\ hpc' = "test_health_wait"
    /\ UNCHANGED <<svars, now, setbacks, last_start, had_failure, i,
                   start_time, gpt_results, vit_results, sent, files>>

\* assert status_code == 200 and json() == {"status": "healthy"};
\* then gpt_results = []
TestHealthAssert ==
    /\ hpc = "test_health_wait"
    /\ req["tc"].stage = "done"
    /\ LET response == req["tc"].response IN
       IF response.status = 200 /\ response.body = [status |-> "healthy"]
       THEN hpc' = "gpt_loop" /\ had_failure' = had_failure
       ELSE hpc' = "assert_failed" /\ had_failure' = TRUE
    /\ i' = 0
    /\ gpt_results' = << >>
    /\ req' = [req EXCEPT !["tc"] = IdleSlot]
    /\ UNCHANGED <<svars, now, setbacks, last_start, start_time, vit_results,
                   sent, files>>

\* variant: one iteration too many
LoopRangeOneMore == NumCalls + 1
\* the iterations a loop makes: for i in range(100)
LoopRange == NumCalls

\* variant: the list is rebound to the new record alone
AppendResultOverwrite(results, result) == << result >>
\* results.append(result)
AppendResult(results, result) == Append(results, result)

\* the record built from one call (lines 200-204, 223-227)
CallResult(response, end_time) ==
    [request_number |-> i + 1,
     total_time |-> end_time - start_time,
     server_processing_time |-> response.body.processing_time]

\* start_time = time.time(); client.post("/generate_text", ...) is sent
GptSend ==
    /\ hpc = "gpt_loop"
    /\ i < LoopRange
    /\ req["tc"].stage = "idle"
    /\ start_time' = now
    /\ req' = [req EXCEPT !["tc"] =
                 Received([endpoint |-> "/generate_text",
                           body |-> HarnessTextBody])]
    /\ sent' = [sent EXCEPT !.gpt = @ + 1]
    /\ hpc' = "gpt_wait"
    /\ UNCHANGED <<svars, now, setbacks, last_start, had_failure, i,
                   gpt_results, vit_results, files>>

\* the response is back: end_time = time.time(); assert; append
GptReceive ==
    /\ hpc = "gpt_wait"
    /\ req["tc"].stage = "done"
    /\ LET response == req["tc"].response IN
       IF response.status = 200
       THEN /\ gpt_results' = AppendResult(gpt_results, CallResult(response, now))
            /\ i' = i + 1
            /\ hpc' = "gpt_loop"
            /\ had_failure' = had_failure
       ELSE /\ hpc' = "assert_failed"
            /\ had_failure' = TRUE
            /\ UNCHANGED <<gpt_results, i>>
    /\ req' = [req EXCEPT !["tc"] = IdleSlot]
    /\ UNCHANGED <<svars, now, setbacks, last_start, start_time, vit_results,
                   sent, files>>

\* the GPT loop is exhausted: vit_results = []; test_image = create_test_image()
GptLoopExit ==
    /\ hpc = "gpt_loop"
    /\ i >= LoopRange
    /\ hpc' = "vit_loop"
    /\ i' = 0
    /\ vit_results' = << >>
    /\ UNCHANGED <<svars, now, setbacks, req, last_start, had_failure,
                   start_time, gpt_results, sent, files>>

\* start_time = time.time(); client.post("/process_image", ...) is sent
VitSend ==
    /\ hpc = "vit_loop"
    /\ i < LoopRange
    /\ req["tc"].stage = "idle"
    /\ start_time' = now
    /\ req' = [req EXCEPT !["tc"] =
                 Received([endpoint |-> "/process_image",
                           body |-> HarnessImageBody])]
    /\ sent' = [sent EXCEPT !.vit = @ + 1]
    /\ hpc' = "vit_wait"
    /\ UNCHANGED <<svars, now, setbacks, last_start, had_failure, i,
                   gpt_results, vit_results, files>>

VitReceive ==
    /\ hpc = "vit_wait"
    /\ req["tc"].stage = "done"
    /\ LET response == req["tc"].response IN
       IF response.status = 200
       THEN /\ vit_results' = AppendResult(vit_results, CallResult(response, now))
            /\ i' = i + 1
            /\ hpc' = "vit_loop"
            /\ had_failure' = had_failure
       ELSE /\ hpc' = "assert_failed"
            /\ had_failure' = TRUE
            /\ UNCHANGED <<vit_results, i>>
    /\ req' = [req EXCEPT !["tc"] = IdleSlot]
    /\ UNCHANGED <<svars, now, setbacks, last_start, start_time, gpt_results,
                   sent, files>>

\* the file written at the end of the run (lines 257-270): one file,
\* test_results_<timestamp>.json, holding both endpoints
ResultsFile(timestamp) ==
    [name |-> [prefix |-> "test_results", timestamp |-> timestamp],
     content |->
        [gpt |-> [individual_results |-> gpt_results,
                  statistics |-> calculate_stats(gpt_results)],
         vit |-> [individual_results |-> vit_results,
                  statistics |-> calculate_stats(vit_results)]]]

\* the ViT loop is exhausted: calculate_stats twice, then save
SaveResults ==
    /\ hpc = "vit_loop"
    /\ i >= LoopRange
    /\ files' = Append(files, ResultsFile(now))
    /\ hpc' = "done"
    /\ UNCHANGED <<svars, now, setbacks, req, last_start, had_failure, i,
                   start_time, gpt_results, vit_results, sent>>

(***************************************************************************)
(* Spec: the notebook run as README.md describes it ("No concurrent        *)
(* requests are made during testing"): the harness is the only client.     *)
(* The wall clock may stall and may be set back.                           *)
(***************************************************************************)
Next ==
    \/ Tick
    \/ ClockSetBack
    \/ LoadGpt
    \/ LoadVit
    \/ ToDevice
    \/ StartServer
    \/ RunTests
    \/ HealthCheck("tc")
    \/ HandlerStart("tc")
    \/ HandlerFinish("tc")
    \/ TestHealthSend
    \/ TestHealthAssert
    \/ GptSend
    \/ GptReceive
    \/ GptLoopExit
    \/ VitSend
    \/ VitReceive
    \/ SaveResults

Spec == Init /\ [][Next]_vars

(***************************************************************************)
(* SpecConcurrent: the same run while outside clients use the uvicorn      *)
(* server, so a handler of each event loop may be in progress at once.     *)
(* The clock is taken to be non-decreasing here.                           *)
(***************************************************************************)
NextConcurrent ==
    \/ Tick
    \/ LoadGpt
    \/ LoadVit
    \/ ToDevice
    \/ StartServer
    \/ RunTests
    \/ \E s \in Slots : HealthCheck(s)
    \/ \E s \in Slots : RejectInvalid(s)
    \/ \E s \in Slots : HandlerStart(s)
    \/ \E s \in Slots : HandlerFinish(s)
    \/ ClientSend
    \/ ClientReceive
    \/ TestHealthSend
    \/ TestHealthAssert
    \/ GptSend
    \/ GptReceive
    \/ GptLoopExit
    \/ VitSend
    \/ VitReceive
    \/ SaveResults

SpecConcurrent == Init /\ [][NextConcurrent]_vars

(***************************************************************************)
(* Properties                                                              *)
(***************************************************************************)
Posts == {"/generate_text", "/process_image"}

\* RFC 4648 well-formedness: alphabet characters only, whole quads, "=" only
\* as the last one or two characters.
WellFormedB64(s) ==
    /\ Len(s) % 4 = 0
    /\ \A k \in 1..Len(s) :
         \/ IsB64Char(s[k])
         \/ /\ s[k] = "="
            /\ k >= Len(s) - 1
            /\ \A j \in k..Len(s) : s[j] = "="

\* slot s holds the response to a POST, not yet taken by its client
AnsweredPost(s) == req[s].stage = "done" /\ req[s].endpoint \in Posts

Results(e) == IF e = "gpt" THEN gpt_results ELSE vit_results

\* C1 (as stated): every failed request to /generate_text or /process_image,
\* a malformed body included, is answered with status 500 and a string detail
\* that is the string form of the error.
C1_EveryFailureIs500 ==
    \A s \in Slots :
        (AnsweredPost(s) /\ req[s].response.status # 200) =>
            /\ req[s].response.status = 500
            /\ req[s].response.body.detail = JStr(req[s].exc.msg)

\* C1 (amended): an exception raised inside the handler is answered with
\* status 500 and detail str(e); a body that does not fit the request model
\* is answered with status 422 and a list detail, and the handler does not
\* run; a request fails in no other way.
C1_HandlerFailureIs500 ==
    \A s \in Slots :
        AnsweredPost(s) =>
            /\ ~BodyValid(req[s].endpoint, req[s].body) =>
                  /\ req[s].response.status = 422
                  /\ req[s].response.body.detail.t = "list"
                  /\ req[s].exc = NoExc
            /\ (BodyValid(req[s].endpoint, req[s].body) /\ req[s].exc # NoExc) =>
                  /\ req[s].response.status = 500
                  /\ req[s].response.body.detail = JStr(req[s].exc.msg)
                  /\ req[s].exc.msg # ""
            /\ (BodyValid(req[s].endpoint, req[s].body) /\ req[s].exc = NoExc) =>
                  req[s].response.status = 200

\* an inference error answered to the harness while an outside client holds
\* the answer to a decode error
C1_Witness ==
    /\ AnsweredPost("tc")
    /\ req["tc"].exc.type = "RuntimeError"
    /\ req["tc"].response.status = 500
    /\ AnsweredPost("srv")
    /\ req["srv"].exc.type = "binascii.Error"
    /\ req["srv"].response.status = 500

\* C2: while the process is up, every GET /health is answered, and the answer
\* is status 200 with {"status": "healthy"}, whatever requests failed before
\* and whatever handler is in progress.
C2_HealthAlwaysHealthy ==
    \A s \in Slots :
        /\ (req[s].stage = "received" /\ req[s].endpoint = "/health") =>
              ENABLED HealthCheck(s)
        /\ (req[s].stage = "done" /\ req[s].endpoint = "/health") =>
              req[s].response = [status |-> 200, body |-> [status |-> "healthy"]]

\* a health check answered after a failed request, while the other loop is
\* inside a handler
C2_Witness ==
    /\ req["srv"].stage = "done"
    /\ req["srv"].endpoint = "/health"
    /\ req["srv"].response.status = 200
    /\ had_failure
    /\ req["tc"].stage = "running"

\* C3 (as stated): a /process_image request whose image is malformed base64
\* is answered with status 500 and a non-empty detail, and the server stays up.
C3_MalformedBase64Is500 ==
    \A s \in Slots :
        ( /\ AnsweredPost(s)
          /\ req[s].endpoint = "/process_image"
          /\ ImageRequestValid(req[s].body)
          /\ ~WellFormedB64(req[s].body.image.str) ) =>
            /\ req[s].response.status = 500
            /\ req[s].response.body.detail.t = "str"
            /\ req[s].response.body.detail.str # ""
            /\ server = "up"

\* C4: each model is loaded at most once, a request is only ever handled with
\* both models loaded exactly once and placed on a device, and after a failed
\* load nothing is served.
C4_LoadedOnceBeforeServing ==
    /\ load_count.gpt <= 1
    /\ load_count.vit <= 1
    /\ ( \/ server = "up"
         \/ hpc # "not_started"
         \/ \E s \in Slots : req[s].stage # "idle" ) =>
            /\ gpt_model = "loaded"
            /\ vit_model = "loaded"
            /\ device # "none"
            /\ load_count = [gpt |-> 1, vit |-> 1]
            /\ cell # "aborted"
    /\ cell = "aborted" =>
            /\ server = "down"
            /\ hpc = "not_started"
            /\ \A s \in Slots : req[s].stage = "idle"

\* the ViT load failed after the GPT load succeeded
C4_Witness ==
    /\ cell = "aborted"
    /\ gpt_model = "loaded"
    /\ vit_model = "unloaded"
    /\ load_count = [gpt |-> 1, vit |-> 1]

\* C5 (as stated): every record of the harness has a server_processing_time
\* that is non-negative and strictly less than its total_time.
C5_ProcessingWithinTotal ==
    \A e \in {"gpt", "vit"} :
        \A k \in 1..Len(Results(e)) :
            /\ 0 <= Results(e)[k].server_processing_time
            /\ Results(e)[k].server_processing_time < Results(e)[k].total_time

\* harness calls sent and not yet recorded, per endpoint
InFlight(e) == sent[e] - Len(Results(e))

\* C6: the harness has at most one call in flight, sends call k+1 of an
\* endpoint only when call k is recorded, sends no /process_image call before
\* all /generate_text calls are recorded, and a completed run made exactly
\* NumCalls calls to each endpoint.
C6_OneCallAtATime ==
    /\ \A e \in {"gpt", "vit"} : InFlight(e) \in {0, 1} /\ sent[e] <= NumCalls
    /\ InFlight("gpt") + InFlight("vit") <= 1
    /\ (InFlight("gpt") + InFlight("vit") = 0 /\ hpc # "test_health_wait") =>
            req["tc"].stage = "idle"
    /\ sent["vit"] > 0 => Len(gpt_results) = NumCalls
    /\ hpc = "done" =>
            /\ sent = [gpt |-> NumCalls, vit |-> NumCalls]
            /\ Len(gpt_results) = NumCalls
            /\ Len(vit_results) = NumCalls

\* the last /process_image call is being handled, everything before it recorded
C6_Witness ==
    /\ hpc = "vit_wait"
    /\ sent = [gpt |-> NumCalls, vit |-> NumCalls]
    /\ Len(vit_results) = NumCalls - 1
    /\ req["tc"].stage = "running"

NumberedInOrder(results) ==
    \A k \in 1..Len(results) : results[k].request_number = k

\* a step leaves the list alone or appends one record to it
GrowsByAppend(old, new) ==
    \/ new = old
    \/ /\ Len(new) = Len(old) + 1
       /\ SubSeq(new, 1, Len(old)) = old
       /\ new[Len(new)].request_number = Len(new)

\* C7: each TestRun only grows by appending the record of the call that just
\* completed, numbered 1, 2, ... in call order; nothing is on disk before the
\* run completes, a run that stops early leaves nothing on disk, and the one
\* write of a completed run holds every record of both endpoints.
C7_AppendOnlySavedOnce ==
    /\ [](/\ NumberedInOrder(gpt_results)
          /\ NumberedInOrder(vit_results)
          /\ hpc # "done" => files = << >>
          /\ hpc = "done" =>
                /\ Len(files) = 1
                /\ files[1].content.gpt.individual_results = gpt_results
                /\ files[1].content.vit.individual_results = vit_results
                /\ Len(gpt_results) = NumCalls
                /\ Len(vit_results) = NumCalls)
    /\ [][/\ GrowsByAppend(gpt_results, gpt_results')
          /\ GrowsByAppend(vit_results, vit_results')
          /\ files # << >> => files' = files]_vars

\* a /process_image call failed after both lists had grown: nothing is saved
C7_Witness ==
    /\ hpc = "assert_failed"
    /\ Len(gpt_results) = NumCalls
    /\ Len(vit_results) >= 1
    /\ files = << >>

\* the sum of field f over the records, by index
RECURSIVE FieldSum(_, _, _)
FieldSum(results, f, k) ==
    IF k = 0 THEN 0 ELSE results[k][f] + FieldSum(results, f, k - 1)

StatisticsFit(st, results) ==
    LET n == Len(results) IN
    /\ st.average_total_time.den = n
    /\ st.average_total_time.num = FieldSum(results, "total_time", n)
    /\ st.average_processing_time.den = n
    /\ st.average_processing_time.num =
            FieldSum(results, "server_processing_time", n)
    /\ \A k \in 1..n : st.min_time <= results[k].total_time
    /\ \E k \in 1..n : st.min_time = results[k].total_time
    /\ \A k \in 1..n : st.max_time >= results[k].total_time
    /\ \E k \in 1..n : st.max_time = results[k].total_time
    \* min_time <= average_total_time <= max_time
    /\ st.min_time * st.average_total_time.den <= st.average_total_time.num
    /\ st.average_total_time.num <= st.max_time * st.average_total_time.den
    \* std_dev is the root of a non-negative variance
    /\ st.std_dev_squared.num >= 0
    /\ st.std_dev_squared.den > 0
    /\ (st.std_dev_squared.num = 0) <=> (st.min_time = st.max_time)

\* C8: in a completed run the Statistics of each endpoint are those of its own
\* records: min, max, mean and deviation of the total_time values, the mean of
\* the server_processing_time values, with min <= mean <= max and std_dev >= 0.
C8_StatisticsOfOwnCalls ==
    hpc = "done" =>
        /\ StatisticsFit(files[1].content.gpt.statistics, gpt_results)
        /\ StatisticsFit(files[1].content.vit.statistics, vit_results)

\* a completed run whose GPT times differ and differ from the ViT times
C8_Witness ==
    /\ hpc = "done"
    /\ files[1].content.gpt.statistics.min_time
            < files[1].content.gpt.statistics.max_time
    /\ files[1].content.gpt.statistics.average_total_time
            # files[1].content.vit.statistics.average_total_time
    /\ files[1].content.gpt.statistics.average_processing_time
            # files[1].content.gpt.statistics.average_total_time

\* C9 (as stated, with README.md's names): a completed run leaves one file per
\* endpoint, gpt_test_results_<timestamp>.json and
\* vit_test_results_<timestamp>.json, each with that endpoint's records and
\* statistics.
C9_OneFilePerEndpoint ==
    hpc = "done" =>
        /\ \E k \in 1..Len(files) :
              /\ files[k].name.prefix = "gpt_test_results"
              /\ files[k].content.individual_results = gpt_results
        /\ \E k \in 1..Len(files) :
              /\ files[k].name.prefix = "vit_test_results"
              /\ files[k].content.individual_results = vit_results

\* what a handler that returned reports: its own input's result and the time
\* between its own two clock reads
OwnResponse(s) ==
    (AnsweredPost(s) /\ req[s].response.status = 200) =>
        /\ req[s].response.body.processing_time =
                req[s].end_time - req[s].start_time
        /\ req[s].endpoint = "/generate_text" =>
                req[s].response.body.generated_text =
                    << "generated", req[s].body.text.str,
                       IF req[s].body.max_length.t = "int"
                       THEN req[s].body.max_length.int ELSE 100 >>
        /\ req[s].endpoint = "/process_image" =>
                req[s].response.body.embedding_shape = << 1, 768 >>

\* C10: with handlers of both event loops interleaved, a step that serves a
\* request changes no model, device or server state, and each answer reports
\* the result of its own input and the time between its own start and end.
C10_NoSharedStateWritten ==
    /\ [](\A s \in Slots : OwnResponse(s))
    /\ [][req' # req =>
            UNCHANGED <<gpt_model, vit_model, device, load_count, server>>]_vars

\* the harness's call was answered after an outside request entered its
\* handler at a later clock value
C10_Witness ==
    /\ AnsweredPost("tc")
    /\ req["tc"].response.status = 200
    /\ req["tc"].response.body.processing_time = 1
    /\ req["srv"].stage = "running"
    /\ req["srv"].start_time # req["tc"].start_time
    /\ last_start # req["tc"].start_time

====
